---- MODULE Spec2Model ----
(***************************************************************************)
(* y10n: Accept-Language parsing (Language::from, parse_accept_language)   *)
(* and the language-fallback merge of YAML trees (merge_yaml,              *)
(* Y10n::localize), modelled from src/src/lib.rs.                          *)
(*                                                                         *)
(* Strings are sequences of one-character strings, so that the regular     *)
(* expression and the number parser work on characters.  A serde_yaml      *)
(* Value is a record tagged with its variant; a Mapping is a function from *)
(* its keys to Values (the insertion order of a Mapping, which no branch   *)
(* of merge_yaml reads, is not modelled).                                  *)
(***************************************************************************)
EXTENDS Integers, Sequences, FiniteSets, TLC

VARIABLES pc, written, segment, lang, header, results, a, b, translations, languages,
          out, calls

vars == <<pc, written, segment, lang, header, results, a, b, translations, languages,
          out, calls>>

(***************************************************************************)
(* Bounds of the model.                                                    *)
(***************************************************************************)
\* longest segment over Alphabet that is enumerated exhaustively
MaxLen == 5
\* longest run of word characters written for a code or a region
MaxRun == 2
\* most digits written on either side of the decimal point of a quality
MaxDigits == 1
\* most comma-separated pieces of a header
MaxSegs == 3
\* longest sequence held in a tree before a merge
MaxSeqLen == 1
\* longest preference list handed to localize
MaxLangs == 2
\* most calls of localize on one store
MaxCalls == 2

(***************************************************************************)
(* Characters.  \w of the regex crate is letters, digits and underscore    *)
(* (Unicode aware); [0-9] is the ASCII digits.                             *)
(***************************************************************************)
Digits == {"0", "1", "2", "3", "4", "5", "6", "7", "8", "9"}

Letters == {"d", "e", "n", "q", "D", "E", "S", "U", "k", "o", "w", "u"}

WordChars == Letters \cup Digits \cup {"_"}

DigitVal(c) ==
    CASE c = "0" -> 0 [] c = "1" -> 1 [] c = "2" -> 2 [] c = "3" -> 3
      [] c = "4" -> 4 [] c = "5" -> 5 [] c = "6" -> 6 [] c = "7" -> 7
      [] c = "8" -> 8 [] c = "9" -> 9

\* Option<T>
None == [some |-> FALSE, val |-> <<>>]

Some(x) == [some |-> TRUE, val |-> x]

\* s[i..j-1] (1-based, j exclusive)
Slice(s, i, j) == SubSeq(s, i, j - 1)

\* the position after the longest run of characters of S that starts at i
RECURSIVE RunEnd(_, _, _)
RunEnd(s, i, S) ==
    IF i <= Len(s) /\ s[i] \in S THEN RunEnd(s, i + 1, S) ELSE i

\* whether the literal lit occurs in s at position i
LitAt(s, i, lit) ==
    /\ i + Len(lit) - 1 <= Len(s)
    /\ \A k \in 1..Len(lit) : s[i + k - 1] = lit[k]

(***************************************************************************)
(* f64 values: exact decimals n / d with d a power of ten, kept in lowest  *)
(* decimal form (no trailing zero in the fraction), so that equal numbers  *)
(* are equal records.  Infinity is the value of a literal too large for    *)
(* an f64; no literal of the model is that long.                           *)
(***************************************************************************)
RECURSIVE Normal(_)
Normal(q) ==
    IF q.d > 1 /\ q.n % 10 = 0 THEN Normal([n |-> q.n \div 10, d |-> q.d \div 10])
    ELSE q

F64(n, d) == Normal([n |-> n, d |-> d])

RECURSIVE DigitsVal(_)
DigitsVal(s) ==
    IF s = <<>> THEN 0
    ELSE 10 * DigitsVal(SubSeq(s, 1, Len(s) - 1)) + DigitVal(s[Len(s)])

RECURSIVE Pow10(_)
Pow10(k) == IF k = 0 THEN 1 ELSE 10 * Pow10(k - 1)

\* str::parse::<f64> on an unsigned decimal literal: digits, an optional point,
\* digits, with a digit on at least one side.  The other forms f64 accepts
\* (sign, exponent, inf, nan) hold characters the quality group never captures.
ParseF64(txt) ==
    LET p  == RunEnd(txt, 1, Digits)
        ip == Slice(txt, 1, p)
        dot == p <= Len(txt) /\ txt[p] = "."
        e  == IF dot THEN RunEnd(txt, p + 1, Digits) ELSE p
        fp == IF dot THEN Slice(txt, p + 1, e) ELSE <<>>
    IN  IF e = Len(txt) + 1 /\ Len(ip) + Len(fp) > 0
        THEN [ok |-> TRUE,
              val |-> F64(DigitsVal(ip) * Pow10(Len(fp)) + DigitsVal(fp), Pow10(Len(fp)))]
        ELSE [ok |-> FALSE, val |-> F64(0, 1)]

(***************************************************************************)
(* LANG_REGEX, matched as Regex::captures does: the leftmost match, and    *)
(* at that start the first match in priority order (greedy repetitions     *)
(* and options prefer to match).  Everything after the code group is       *)
(* optional, so the first attempt at the leftmost word character is the    *)
(* match and no backtracking into an earlier group ever happens.           *)
(***************************************************************************)
\* the first position holding a word character, 0 when there is none
RECURSIVE FindWord(_, _)
FindWord(s, i) ==
    IF i > Len(s) THEN 0
    ELSE IF s[i] \in WordChars THEN i
    ELSE FindWord(s, i + 1)

\* the quality group written as [0-9]+ alone: the fraction is never captured
QualityEndDigitsOnly(s, i) == RunEnd(s, i, Digits)

\* (?P<quality>([0-9]*[.])?[0-9]+) at position i: the end of the capture, or i
\* itself when the group does not take part in the match
QualityEnd(s, i) ==
    LET p == RunEnd(s, i, Digits)
        withPoint == p <= Len(s) /\ s[p] = "." /\ RunEnd(s, p + 1, Digits) > p + 1
    IN  IF withPoint THEN RunEnd(s, p + 1, Digits) ELSE p

LangCaptures(s) ==
    LET st == FindWord(s, 1)
        ce == RunEnd(s, st, WordChars)
        rs == IF ce <= Len(s) /\ s[ce] = "-" THEN ce + 1 ELSE ce
        re == RunEnd(s, rs, WordChars)
        hasQ == LitAt(s, re, <<";", "q", "=">>)
        qs == re + 3
        qe == IF hasQ THEN QualityEnd(s, qs) ELSE qs
    IN  IF st = 0 THEN None
        ELSE Some([code |-> Some(Slice(s, st, ce)),
                   region |-> IF re > rs THEN Some(Slice(s, rs, re)) ELSE None,
                   quality |-> IF hasQ /\ qe > qs THEN Some(Slice(s, qs, qe)) ELSE None])

Unknown == <<"u", "n", "k", "n", "o", "w", "n">>

QualityDefault == F64(1, 1)

QualityOnError == F64(0, 1)

\* .map_or(1.0, |c| c.as_str().parse().unwrap_or(0.0))
QualityOf(cap) ==
    IF cap.some
    THEN (IF ParseF64(cap.val).ok THEN ParseF64(cap.val).val ELSE QualityOnError)
    ELSE QualityDefault

\* Language::from: Result<Language, Error>
Language_from(seg) ==
    LET caps == LangCaptures(seg)
    IN  IF caps.some
        THEN [ok |-> TRUE,
              code |-> IF caps.val.code.some THEN caps.val.code.val ELSE Unknown,
              region |-> caps.val.region,
              quality |-> QualityOf(caps.val.quality)]
        ELSE [ok |-> FALSE, code |-> <<>>, region |-> None, quality |-> QualityOnError]

\* str::split(","): the pieces between the commas, empty pieces included
RECURSIVE SplitFrom(_, _, _)
SplitFrom(s, i, cur) ==
    IF i > Len(s) THEN <<cur>>
    ELSE IF s[i] = "," THEN <<cur>> \o SplitFrom(s, i + 1, <<>>)
    ELSE SplitFrom(s, i + 1, Append(cur, s[i]))

Split(s) == SplitFrom(s, 1, <<>>)

\* the loop leaving at the first piece that fails to parse
RECURSIVE ParsePartsAbort(_, _)
ParsePartsAbort(parts, res) ==
    IF parts = <<>> THEN res
    ELSE LET language == Language_from(Head(parts))
         IN  IF language.ok THEN ParsePartsAbort(Tail(parts), Append(res, language))
             ELSE res

\* the loop of parse_accept_language over the pieces
RECURSIVE ParseParts(_, _)
ParseParts(parts, res) ==
    IF parts = <<>> THEN res
    ELSE LET language == Language_from(Head(parts))
         IN  ParseParts(Tail(parts), IF language.ok THEN Append(res, language) ELSE res)

parse_accept_language(h) == ParseParts(Split(h), <<>>)

(***************************************************************************)
(* serde_yaml::Value                                                       *)
(***************************************************************************)
\* t names the variant; s is the text of a string, q the elements of a
\* sequence, m the entries of a mapping (each empty in the other variants)
Null == [t |-> "null", s |-> "", q |-> <<>>, m |-> <<>>]

Str(x) == [t |-> "str", s |-> x, q |-> <<>>, m |-> <<>>]

Sequence(x) == [t |-> "seq", s |-> "", q |-> x, m |-> <<>>]

Mapping(f) == [t |-> "map", s |-> "", q |-> <<>>, m |-> f]

\* Mapping::new()
EmptyMapping == Mapping(<<>>)

is_sequence(x) == x.t = "seq"

is_mapping(x) == x.t = "map"

contains_key(m, k) == k \in DOMAIN m

\* Mapping::insert, and the assignment a[&k] = value
Insert(m, k, x) == [j \in (DOMAIN m) \cup {k} |-> IF j = k THEN x ELSE m[j]]

\* the entry of a sequence overwritten instead of extended
MergeEntryOverwrite(am, k, x) == Insert(am, k, x)

\* the source taking the place of the destination whatever the two are
MergeYamlReplace(x, y) == y

\* merge_yaml(a, b): the value a holds afterwards.  The loop over the entries
\* of b is folded over the keys of b; they are distinct, so the order in
\* which the loop meets them does not change the result.
RECURSIVE merge_yaml(_, _)
RECURSIVE MergeEntries(_, _, _)
MergeEntry(am, k, x) ==
    IF is_sequence(x) /\ contains_key(am, k) /\ is_sequence(am[k])
    THEN Insert(am, k, Sequence(am[k].q \o x.q))
    ELSE IF ~contains_key(am, k) THEN Insert(am, k, x)
    ELSE Insert(am, k, merge_yaml(am[k], x))

MergeEntries(am, bm, todo) ==
    IF todo = {} THEN am
    ELSE LET k == CHOOSE j \in todo : TRUE
         IN  MergeEntries(MergeEntry(am, k, bm[k]), bm, todo \ {k})

merge_yaml(x, y) ==
    IF is_mapping(x) /\ is_mapping(y)
    THEN Mapping(MergeEntries(x.m, y.m, DOMAIN y.m))
    ELSE y

\* the first loop of localize: the stored trees of the languages, cloned, in
\* the order of the list
RECURSIVE Collect(_, _)
Collect(t, langs) ==
    IF langs = <<>> THEN <<>>
    ELSE IF Head(langs).code \in DOMAIN t
         THEN <<t[Head(langs).code]>> \o Collect(t, Tail(langs))
         ELSE Collect(t, Tail(langs))

\* the second loop without .rev(): the lowest priority merged last
RECURSIVE MergeForward(_, _)
MergeForward(map, values) ==
    IF values = <<>> THEN map
    ELSE MergeForward(merge_yaml(map, Head(values)), Tail(values))

\* the second loop: values.into_iter().rev() merged into map one by one
RECURSIVE MergeRev(_, _)
MergeRev(map, values) ==
    IF values = <<>> THEN map
    ELSE MergeRev(merge_yaml(map, values[Len(values)]), SubSeq(values, 1, Len(values) - 1))

\* the accumulator starting as Value::Null instead of an empty Mapping
LocalizeFromNull(t, langs) == MergeRev(Null, Collect(t, langs))

\* Y10n::localize: the value returned
localize(t, langs) == MergeRev(EmptyMapping, Collect(t, langs))

\* the trees merged into the stored tree of the last matched language, in
\* place, instead of into clones
StoreMergedInPlace(t, langs) ==
    LET values == Collect(t, langs)
        codes == {langs[i].code : i \in 1..Len(langs)} \cap DOMAIN t
    IN  IF values = <<>> THEN t
        ELSE LET c == CHOOSE x \in codes : t[x] = values[Len(values)]
             IN  [t EXCEPT ![c] = MergeRev(t[c], SubSeq(values, 1, Len(values) - 1))]

\* Y10n::localize takes &self and merges clones: the store it leaves behind
StoreAfterLocalize(t, langs) == t

(***************************************************************************)
(* Inputs.                                                                 *)
(***************************************************************************)
SeqsUpTo(S, n) == UNION {[1..k -> S] : k \in 0..n}

\* all functions from a subset of D to R
PartialFns(D, R) == UNION {[dd -> R] : dd \in SUBSET D}

\* segments enumerated exhaustively
Alphabet == {"e", "q", "5", "-", ";", "=", "."}

ShortSegments == SeqsUpTo(Alphabet, MaxLen)

\* the parts of segments written in the grammar <code>[-<region>][;q=<quality>]
Runs == SeqsUpTo({"e", "q", "5"}, MaxRun) \ {<<>>}

DigitStrings == SeqsUpTo({"0", "5"}, MaxDigits)

\* a decimal number as written: digits, an optional point, digits, with a digit
\* on at least one side
Written ==
    {w \in [int : DigitStrings, point : BOOLEAN, frac : DigitStrings] :
        /\ Len(w.int) + Len(w.frac) > 0
        /\ ~w.point => w.frac = <<>>}

\* no quality clause written
NoDecimal == [some |-> FALSE, val |-> [int |-> <<>>, point |-> FALSE, frac |-> <<>>]]

DecimalText(w) == w.int \o (IF w.point THEN <<".">> ELSE <<>>) \o w.frac

Render(g) ==
    g.code \o (IF g.region.some THEN <<"-">> \o g.region.val ELSE <<>>)
           \o (IF g.quality.some THEN <<";", "q", "=">> \o DecimalText(g.quality.val)
               ELSE <<>>)

GrammarParts ==
    [code : Runs,
     region : {None} \cup {Some(x) : x \in Runs},
     quality : {NoDecimal} \cup {Some(w) : w \in Written}]

\* what the caller wrote when the segment was not rendered from parts
NotWritten == [code |-> <<>>, region |-> None, quality |-> NoDecimal]

\* the pieces headers are made of: some parse, some do not
Pieces ==
    { <<>>, <<"e">>, <<"e", "-", "e">>, <<"q", ";", "q", "=", "5">>,
      <<"e", ";", "q", "=", ".", "5">>, <<"-">>, <<";", "=">> }

RECURSIVE Join(_)
Join(ps) ==
    IF Len(ps) = 0 THEN <<>>
    ELSE IF Len(ps) = 1 THEN ps[1]
    ELSE ps[1] \o <<",">> \o Join(Tail(ps))

Headers == {Join(ps) : ps \in SeqsUpTo(Pieces, MaxSegs)}

\* trees handed to merge_yaml
Elems == {Str("a"), Str("b")}

Scalars == {Str("hi"), Str("moin")}

MergeLeaves == {Null} \cup Scalars \cup {Sequence(s) : s \in SeqsUpTo(Elems, MaxSeqLen)}

MergeInner ==
    MergeLeaves \cup {Mapping(m) : m \in PartialFns({"x"}, MergeLeaves \cup {EmptyMapping})}

MergeTrees ==
    MergeLeaves \cup {Mapping(m) : m \in PartialFns({"greeting", "tags"}, MergeInner)}

\* trees held by a store
StoreInner ==
    Scalars \cup {Sequence(s) : s \in SeqsUpTo({Str("a")}, MaxSeqLen)}
            \cup {EmptyMapping, Mapping([k \in {"x"} |-> Str("hi")])}

StoreTrees ==
    {Str("hi"), Sequence(<<Str("a")>>)}
        \cup {Mapping(m) : m \in PartialFns({"greeting", "tags"}, StoreInner)}

En == <<"e", "n">>

De == <<"d", "e">>

Stores == PartialFns({En, De}, StoreTrees)

\* the descriptors preference lists are made of
Descriptors ==
    {Language_from(s) : s \in {En, De, <<"e", "n", "-", "U", "S">>}}

PrefLists == SeqsUpTo(Descriptors, MaxLangs)

NoLanguage == [ok |-> FALSE, code |-> <<>>, region |-> None, quality |-> QualityOnError]

(***************************************************************************)
(* The parser: one call of Language::from or of parse_accept_language on   *)
(* an input drawn at the start.                                            *)
(***************************************************************************)
MergeIdle == a = Null /\ b = Null

LocalizeIdle == translations = <<>> /\ languages = <<>> /\ out = Null /\ calls = 0

ParseIdle ==
    written = NotWritten /\ segment = <<>> /\ lang = NoLanguage /\ header = <<>> /\ results = <<>>

InitParse ==
    /\ lang = NoLanguage
    /\ results = <<>>
    /\ \/ /\ pc = "Language_from"
          /\ \/ written = NotWritten /\ segment \in ShortSegments
             \/ written \in GrammarParts /\ segment = Render(written)
          /\ header = <<>>
       \/ /\ pc = "parse_accept_language"
          /\ header \in Headers
          /\ written = NotWritten
          /\ segment = <<>>
    /\ MergeIdle
    /\ LocalizeIdle

LanguageFrom ==
    /\ pc = "Language_from"
    /\ lang' = Language_from(segment)
    /\ pc' = "Language_returned"
    /\ UNCHANGED <<written, segment, header, results, a, b, translations, languages, out,
                   calls>>

ParseAcceptLanguage ==
    /\ pc = "parse_accept_language"
    /\ results' = parse_accept_language(header)
    /\ pc' = "languages_returned"
    /\ UNCHANGED <<written, segment, lang, header, a, b, translations, languages, out,
                   calls>>

NextParse == LanguageFrom \/ ParseAcceptLanguage

SpecParse == InitParse /\ [][NextParse]_vars

(***************************************************************************)
(* merge_yaml on a destination a and a source b drawn at the start.        *)
(***************************************************************************)
InitMerge ==
    /\ pc = "merge_yaml"
    /\ a \in MergeTrees
    /\ b \in MergeTrees
    /\ ParseIdle
    /\ LocalizeIdle

MergeYaml ==
    /\ pc = "merge_yaml"
    /\ a' = merge_yaml(a, b)
    /\ pc' = "merged"
    /\ UNCHANGED <<written, segment, lang, header, results, b, translations, languages, out,
                   calls>>

NextMerge == MergeYaml

SpecMerge == InitMerge /\ [][NextMerge]_vars

(***************************************************************************)
(* Y10n::localize, called any number of times on a store loaded at the     *)
(* start; the caller takes the returned tree before the next call.         *)
(***************************************************************************)
InitLocalize ==
    /\ pc = "loaded"
    /\ translations \in Stores
    /\ languages = <<>>
    /\ out = Null
    /\ calls = 0
    /\ ParseIdle
    /\ MergeIdle

Localize ==
    /\ pc = "loaded"
    /\ calls < MaxCalls
    /\ calls' = calls + 1
    /\ \E langs \in PrefLists :
          /\ languages' = langs
          /\ out' = localize(translations, langs)
          /\ translations' = StoreAfterLocalize(translations, langs)
    /\ pc' = "localized"
    /\ UNCHANGED <<written, segment, lang, header, results, a, b>>

TakeResult ==
    /\ pc = "localized"
    /\ pc' = "loaded"
    /\ languages' = <<>>
    /\ out' = Null
    /\ calls' = calls
    /\ UNCHANGED <<written, segment, lang, header, results, a, b, translations>>

NextLocalize == Localize \/ TakeResult

SpecLocalize == InitLocalize /\ [][NextLocalize]_vars

(***************************************************************************)
(* The library as a whole: any one of the three.                           *)
(***************************************************************************)
Init == InitParse \/ InitMerge \/ InitLocalize

Next == NextParse \/ NextMerge \/ NextLocalize

Spec == Init /\ [][Next]_vars

(***************************************************************************)
(* Language::from and parse_accept_language                                *)
(***************************************************************************)
Semi == <<";", "q", "=">>

\* s is <code> or <code>-<region>, both runs of word characters
IsTag(s) ==
    LET ce == RunEnd(s, 1, WordChars)
    IN  /\ ce > 1
        /\ \/ ce = Len(s) + 1
           \/ /\ s[ce] = "-"
              /\ ce < Len(s)
              /\ RunEnd(s, ce + 1, WordChars) = Len(s) + 1

\* s is a decimal number as written: digits, an optional point, digits
IsDecimal(s) ==
    /\ \E i \in 1..Len(s) : s[i] \in Digits
    /\ \A i \in 1..Len(s) : s[i] \in Digits \cup {"."}
    /\ Cardinality({i \in 1..Len(s) : s[i] = "."}) <= 1

\* the segment is a tag followed by a quality clause whose value is no number
MalformedQuality(s) ==
    \E i \in 1..Len(s) :
        /\ LitAt(s, i, Semi)
        /\ IsTag(Slice(s, 1, i))
        /\ ~IsDecimal(Slice(s, i + 3, Len(s) + 1))

\* C2: a segment whose quality clause is present but whose value does not parse
\* is accepted with quality 0.0 (and so not with the 1.0 of a segment that has
\* no quality clause).
C2_MalformedQualityIsZero ==
    (pc = "Language_returned" /\ MalformedQuality(segment)) =>
        (lang.ok /\ lang.quality = F64(0, 1))

LeOne(q) == q.n <= q.d

InUnitInterval(q) == 0 <= q.n /\ LeOne(q)

\* C3: every descriptor returned by Language::from, and every descriptor of a
\* list returned by parse_accept_language, has a quality in [0, 1] and a
\* non-empty code.
C3_QualityInUnitInterval ==
    /\ (pc = "Language_returned" /\ lang.ok) =>
           (InUnitInterval(lang.quality) /\ lang.code # <<>>)
    /\ pc = "languages_returned" =>
           \A i \in 1..Len(results) :
               InUnitInterval(results[i].quality) /\ results[i].code # <<>>

\* the number a written decimal denotes
WrittenValue(w) ==
    F64(DigitsVal(w.int) * Pow10(Len(w.frac)) + DigitsVal(w.frac), Pow10(Len(w.frac)))

\* C4: a segment written in the grammar <code>[-<region>][;q=<quality>] parses
\* to the code, the region (None when none is written) and the quality written
\* (1.0 when none is written).
C4_GrammarSegmentParses ==
    (pc = "Language_returned" /\ written # NotWritten) =>
        /\ lang.ok
        /\ lang.code = written.code
        /\ lang.region = written.region
        /\ lang.quality = (IF written.quality.some THEN WrittenValue(written.quality.val)
                           ELSE F64(1, 1))

C4_Witness ==
    /\ pc = "Language_returned"
    /\ segment = <<"q", "5", "-", "e", ";", "q", "=", "0", ".", "5">>
    /\ lang.code = <<"q", "5">>
    /\ lang.region = Some(<<"e">>)
    /\ lang.quality = [n |-> 5, d |-> 10]

\* the pieces of the header: the comma-free strings that joined by commas give
\* the header back
IsSplitOf(ps, h) ==
    /\ Len(ps) >= 1
    /\ Join(ps) = h
    /\ \A i \in 1..Len(ps) : \A j \in 1..Len(ps[i]) : ps[i][j] # ","

\* the pieces that parse, by position
Kept(ps) == {i \in 1..Len(ps) : Language_from(ps[i]).ok}

\* C5: the list returned for a header holds the descriptors of the pieces that
\* parse, in header order, and nothing else; it is empty exactly when no piece
\* parses.
C5_HeaderOrderKept ==
    pc = "languages_returned" =>
        LET ps == Split(header)
            kept == Kept(ps)
        IN  /\ IsSplitOf(ps, header)
            /\ Len(results) = Cardinality(kept)
            /\ \A i \in kept :
                   results[Cardinality({j \in kept : j <= i})] = Language_from(ps[i])
            /\ (results = <<>>) <=> (kept = {})

\* a failing piece between two pieces that parse, the lower quality first
C5_Witness ==
    /\ pc = "languages_returned"
    /\ header = <<"e", ";", "q", "=", ".", "5", ",", "-", ",", "e", "-", "e">>
    /\ Len(results) = 2
    /\ results[1].quality = [n |-> 5, d |-> 10]
    /\ results[2].quality = [n |-> 1, d |-> 1]
    /\ results[2].region = Some(<<"e">>)

(***************************************************************************)
(* merge_yaml                                                              *)
(***************************************************************************)
MergeStep == pc = "merge_yaml" /\ pc' = "merged"

BothSequences(x, y) == is_sequence(x) /\ is_sequence(y)

BothMappings(x, y) == is_mapping(x) /\ is_mapping(y)

\* the rule for the entries of a source mapping y merged into a destination
\* mapping x, giving z
AppendRule(x, y, z) ==
    \A k \in DOMAIN y :
        /\ k \in DOMAIN z
        /\ (k \in DOMAIN x /\ BothSequences(x[k], y[k])) =>
               z[k] = Sequence(x[k].q \o y[k].q)
        /\ (k \notin DOMAIN x \/ (~BothSequences(x[k], y[k]) /\ ~BothMappings(x[k], y[k]))) =>
               z[k] = y[k]

\* C6: merging a map into a map, a key that holds a sequence on both sides
\* holds the destination's sequence followed by the source's afterwards, and a
\* key of the source whose two values are neither both sequences nor both maps
\* holds the source's value; the same at the keys of nested maps; two sequences
\* that are not under a map key do not accumulate.
C6_SequenceAppend ==
    [][MergeStep =>
        /\ BothMappings(a, b) =>
              /\ is_mapping(a')
              /\ AppendRule(a.m, b.m, a'.m)
              /\ \A k \in (DOMAIN a.m) \cap (DOMAIN b.m) :
                     BothMappings(a.m[k], b.m[k]) =>
                         /\ is_mapping(a'.m[k])
                         /\ AppendRule(a.m[k].m, b.m[k].m, a'.m[k].m)
        /\ BothSequences(a, b) => a' = b]_vars

C6_Witness ==
    /\ pc = "merged"
    /\ b = Mapping([k \in {"tags"} |-> Sequence(<<Str("b")>>)])
    /\ a = Mapping([k \in {"greeting", "tags"} |->
                      IF k = "tags" THEN Sequence(<<Str("a"), Str("b")>>) ELSE Str("hi")])

\* C9 as stated: merging the empty map leaves any destination unchanged, at the
\* top level and at a nested key.
C9_EmptyLeavesAnyUnchanged ==
    [][MergeStep =>
        /\ b = EmptyMapping => a' = a
        /\ BothMappings(a, b) =>
              \A k \in (DOMAIN a.m) \cap (DOMAIN b.m) :
                  b.m[k] = EmptyMapping => a'.m[k] = a.m[k]]_vars

\* C9 amended: merging the empty map leaves a destination that is a map
\* unchanged, at the top level and at a nested key; a destination that is a
\* sequence, a scalar or null becomes the empty map.
C9_EmptyLeavesMapUnchanged ==
    [][MergeStep =>
        /\ b = EmptyMapping => a' = (IF is_mapping(a) THEN a ELSE EmptyMapping)
        /\ BothMappings(a, b) =>
              \A k \in (DOMAIN a.m) \cap (DOMAIN b.m) :
                  b.m[k] = EmptyMapping =>
                      a'.m[k] = (IF is_mapping(a.m[k]) THEN a.m[k] ELSE EmptyMapping)]_vars

\* the empty map merged into a map with a nested map: both are still there
C9_Witness ==
    /\ pc = "merged"
    /\ b = EmptyMapping
    /\ is_mapping(a)
    /\ DOMAIN a.m = {"greeting", "tags"}
    /\ a.m["greeting"] = Mapping([k \in {"x"} |-> Str("hi")])

(***************************************************************************)
(* Y10n::localize                                                          *)
(***************************************************************************)
Returned == pc = "localized"

Matched(i) == languages[i].code \in DOMAIN translations

TreeOf(i) == translations[languages[i].code]

IsScalar(x) == x.t \in {"str", "null"}

TopKeys == {"greeting", "tags"}

\* the positions of the list whose language is stored with key k in its tree
Holders(k) ==
    {i \in 1..Len(languages) : Matched(i) /\ is_mapping(TreeOf(i)) /\ k \in DOMAIN TreeOf(i).m}

Min(S) == CHOOSE i \in S : \A j \in S : i <= j

\* C1: with a store of maps, a key whose first holder in list order holds a
\* scalar has that scalar in the merged tree, and a key no matched tree holds
\* is not in the merged tree.
C1_HighestPriorityWins ==
    (Returned /\ \A c \in DOMAIN translations : is_mapping(translations[c])) =>
        /\ is_mapping(out)
        /\ \A k \in TopKeys :
               IF Holders(k) = {} THEN k \notin DOMAIN out.m
               ELSE LET x == TreeOf(Min(Holders(k))).m[k]
                    IN  IsScalar(x) => (k \in DOMAIN out.m /\ out.m[k] = x)

\* [de, en]: de wins at greeting, en supplies tags
C1_Witness ==
    /\ Returned
    /\ Len(languages) = 2
    /\ languages[1].code = De
    /\ languages[2].code = En
    /\ translations =
          [c \in {De, En} |->
              IF c = De THEN Mapping([k \in {"greeting"} |-> Str("moin")])
              ELSE Mapping([k \in {"greeting", "tags"} |-> Str("hi")])]
    /\ out = Mapping([k \in {"greeting", "tags"} |->
                        IF k = "greeting" THEN Str("moin") ELSE Str("hi")])

C8_AlwaysMapping == Returned => is_mapping(out)

MatchedPositions == {i \in 1..Len(languages) : Matched(i)}

\* C8 amended: the value returned is a map when no language of the list is
\* stored, and when the tree of the first language of the list that is stored
\* is a map.
C8_MappingWhenFirstIs ==
    (Returned /\ (MatchedPositions = {} \/ is_mapping(TreeOf(Min(MatchedPositions))))) =>
        is_mapping(out)

\* a map returned although the lower priority tree is a scalar
C8_Witness ==
    /\ Returned
    /\ Len(languages) = 2
    /\ Matched(1)
    /\ Matched(2)
    /\ is_mapping(TreeOf(1))
    /\ TreeOf(2) = Str("hi")
    /\ out = TreeOf(1)
    /\ DOMAIN out.m = {"greeting"}

\* the list without the later descriptors whose code occurred before
RECURSIVE Dedup(_, _)
Dedup(langs, seen) ==
    IF langs = <<>> THEN <<>>
    ELSE IF Head(langs).code \in seen THEN Dedup(Tail(langs), seen)
    ELSE <<Head(langs)>> \o Dedup(Tail(langs), seen \cup {Head(langs).code})

\* C10: the tree returned for a list is the tree returned for the list with
\* the repeated codes removed.
C10_RepeatedCodesIgnored ==
    Returned => out = localize(translations, Dedup(languages, {}))

====
